---------------------------- MODULE Spec2Model ----------------------------
(***************************************************************************)
(* A model of the post-processing core of cbt: the numeric combinators of  *)
(* post_processing/common.py, the FIO reader of                            *)
(* post_processing/run_results/benchmarks, the FIO resource reader and the *)
(* run aggregator RunResult / RBDFIO of post_processing/run_results.       *)
(*                                                                         *)
(* Numbers.  Python floats are modelled as exact rationals <<n, d>> with   *)
(* d > 0 and gcd(n, d) = 1, so the model states what the formulas compute  *)
(* and not their rounding.  A standard deviation is a non-negative real    *)
(* that is known by its square: [sq |-> q] stands for sqrt(q).  math.sqrt  *)
(* of a negative number raises ValueError, and a division by zero raises   *)
(* ZeroDivisionError, as in Python.                                        *)
(*                                                                         *)
(* Strings.  Every leaf value of the canonical map is a Python string made *)
(* by an f-string.  A string is modelled by how it was formatted ("int" or *)
(* "float") and the number it spells: int() parses only an "int" string,   *)
(* float() parses both.                                                    *)
(***************************************************************************)
EXTENDS Integers, Sequences, FiniteSets, TLC

VARIABLES
    disc,                 \* the files _find_files_for_testrun discovered, by position
    files,                \* RunResult._files: the positions still in the list
    processed_data,       \* RunResult._processed_data, keyed by <<operation, blocksize, iodepth>>
    has_been_processed,   \* RunResult._has_been_processed
    pc,                   \* "idle", or "loop" inside _process_test_run_files
    idx,                  \* the list iterator's index inside the for loop
    raised,               \* the exception the last call ended with, or "none"
    foldlog,              \* history: the positions _convert_file stored, in order
    passes,               \* history: how many process() passes were started
    process_calls,        \* history: how many of them a caller's process() started
    args,                 \* the inputs of a pure function under check
    result                \* what the pure function returned or raised

aggVars == <<disc, files, processed_data, has_been_processed, pc, idx, raised, foldlog, passes,
             process_calls>>
vars == <<disc, files, processed_data, has_been_processed, pc, idx, raised, foldlog, passes,
          process_calls, args, result>>

-----------------------------------------------------------------------------
(* Bounds of the model *)

MaxShards == 2       \* entries of a list given to a combinator
MaxWeight == 2       \* the largest total_ios of one entry
MaxFiles == 3        \* files a run discovers
MaxPasses == 2       \* process() passes over one run
MaxSegments == 2     \* directory segments of a path under the run directory
MaxDepth == 3        \* the largest iodepth a file or a path names
MaxEntries == 3      \* iodepth entries of a map given to the summary functions
MaxDirs == 3         \* directories above a discovered result file
MaxTokens == 5       \* pieces of a file name in the run directory

-----------------------------------------------------------------------------
(* Exact rational arithmetic *)

Abs(n) == IF n < 0 THEN -n ELSE n

RECURSIVE GCD(_, _)
GCD(a, b) == IF b = 0 THEN a ELSE GCD(b, a % b)

Norm(n, d) ==
    LET g == GCD(Abs(n), Abs(d))
        s == IF d < 0 THEN -1 ELSE 1
    IN  <<(s * n) \div g, (s * d) \div g>>

Rat(n) == <<n, 1>>
RAdd(x, y) == Norm(x[1] * y[2] + y[1] * x[2], x[2] * y[2])
RSub(x, y) == Norm(x[1] * y[2] - y[1] * x[2], x[2] * y[2])
RMul(x, y) == Norm(x[1] * y[1], x[2] * y[2])
RDiv(x, y) == Norm(x[1] * y[2], x[2] * y[1])
RLess(x, y) == x[1] * y[2] < y[1] * x[2]
RLeq(x, y) == x[1] * y[2] <= y[1] * x[2]
IMax(a, b) == IF a < b THEN b ELSE a

(* What a Python call gives: a value, or the exception it raised *)
Ok(v) == [err |-> "none", val |-> v]
Raise(e, v) == [err |-> e, val |-> v]


-----------------------------------------------------------------------------
(* Numeric combinators: post_processing/common.py *)

\* the loop of sum_mean_values: weighted_latency += latency * num_ops[index]
RECURSIVE WeightedLatency(_, _, _)
WeightedLatency(latencies, num_ops, n) ==
    IF n = 0 THEN Rat(0)
    ELSE RAdd(WeightedLatency(latencies, num_ops, n - 1),
              RMul(latencies[n], Rat(num_ops[n])))

\* a plausible slip: the plain average of the means, the weights ignored
sum_mean_values_unweighted(latencies, num_ops, total_ios) ==
    IF Len(num_ops) < Len(latencies) THEN Raise("IndexError", Rat(0))
    ELSE IF total_ios = 0 THEN Raise("ZeroDivisionError", Rat(0))
    ELSE Ok(RDiv(WeightedLatency(latencies, [i \in 1..Len(latencies) |-> 1], Len(latencies)),
                 Rat(IMax(Len(latencies), 1))))

\* a plausible slip: a guard that returns 0 for an empty total instead of dividing
sum_mean_values_guarded(latencies, num_ops, total_ios) ==
    IF Len(num_ops) < Len(latencies) THEN Raise("IndexError", Rat(0))
    ELSE IF total_ios = 0 THEN Ok(Rat(0))
    ELSE Ok(RDiv(WeightedLatency(latencies, num_ops, Len(latencies)), Rat(total_ios)))

\* sum_mean_values: sum(mean * num_ops) / total_ios
sum_mean_values(latencies, num_ops, total_ios) ==
    IF Len(num_ops) < Len(latencies) THEN Raise("IndexError", Rat(0))
    ELSE IF total_ios = 0 THEN Raise("ZeroDivisionError", Rat(0))
    ELSE Ok(RDiv(WeightedLatency(latencies, num_ops, Len(latencies)), Rat(total_ios)))

\* the loop of sum_standard_deviation_values:
\*   weighted_stddev += (operations[i] - 1) * stddev^2 + operations[i] * latencies[i]^2
RECURSIVE WeightedStddev(_, _, _, _)
WeightedStddev(std_deviations, operations, latencies, n) ==
    IF n = 0 THEN Rat(0)
    ELSE RAdd(WeightedStddev(std_deviations, operations, latencies, n - 1),
              RAdd(RMul(Rat(operations[n] - 1), std_deviations[n].sq),
                   RMul(Rat(operations[n]), RMul(latencies[n], latencies[n]))))

\* math.sqrt: a ValueError (math domain error) below zero
PySqrt(q) == IF RLess(q, Rat(0)) THEN Raise("ValueError", [sq |-> Rat(0)]) ELSE Ok([sq |-> q])

\* a plausible slip, the docstring's "/ total_ios - 1" read literally: divide by total_ios
sum_standard_deviation_values_population(std_deviations, operations, latencies, total_ios, combined_latency) ==
    IF Len(operations) < Len(std_deviations) \/ Len(latencies) < Len(std_deviations)
    THEN Raise("IndexError", [sq |-> Rat(0)])
    ELSE IF total_ios = 0 THEN Raise("ZeroDivisionError", [sq |-> Rat(0)])
    ELSE PySqrt(RDiv(RSub(WeightedStddev(std_deviations, operations, latencies,
                                         Len(std_deviations)),
                          RMul(Rat(total_ios), RMul(combined_latency, combined_latency))),
                     Rat(total_ios)))

\* sum_standard_deviation_values:
\*   sqrt((weighted_stddev - total_ios * combined_latency^2) / (total_ios - 1))
sum_standard_deviation_values(std_deviations, operations, latencies, total_ios, combined_latency) ==
    IF Len(operations) < Len(std_deviations) \/ Len(latencies) < Len(std_deviations)
    THEN Raise("IndexError", [sq |-> Rat(0)])
    ELSE IF total_ios - 1 = 0 THEN Raise("ZeroDivisionError", [sq |-> Rat(0)])
    ELSE PySqrt(RDiv(RSub(WeightedStddev(std_deviations, operations, latencies,
                                         Len(std_deviations)),
                          RMul(Rat(total_ios), RMul(combined_latency, combined_latency))),
                     Rat(total_ios - 1)))

-----------------------------------------------------------------------------
(* Strings made by f-strings, and their parsing *)

StrInt(n) == [fmt |-> "int", v |-> Rat(n)]        \* f"{n}" of an int
StrFloat(q) == [fmt |-> "float", v |-> q]         \* f"{x}" of a float
PyInt(s) == IF s.fmt = "int" THEN Ok(s.v[1]) ELSE Raise("ValueError", 0)   \* int(s)

\* f"{x:02f}": fixed notation with six decimals (x >= 0 here), rounded to nearest
FormatF6(q) == StrFloat(Norm((2 * q[1] * 1000000 + q[2]) \div (2 * q[2]), 1000000))

-----------------------------------------------------------------------------
(* Files.  A path is its sequence of directory segments; a segment is      *)
(* "total_iodepth-<n>", "iodepth-<n>", "numjobs-<n>", a name holding       *)
(* "precond", or any other name ("dir").  A file's JSON is its global      *)
(* options, the read/write/other sub-sections of its jobs in file order,   *)
(* and the CPU figures of its first job.                                   *)

Seg(kind, n) == [kind |-> kind, n |-> n]

\* a plausible slip: the size test never finds a file empty
file_is_empty_never(f) == FALSE

\* common.py file_is_empty: st_size == 0
file_is_empty(f) == f.empty

\* common.py file_is_precondition: "precond" in str(file_path)
file_is_precondition(f) == \E i \in 1..Len(f.path) : f.path[i].kind = "precond"

\* common.py get_blocksize: drop one trailing non-digit
get_blocksize(bs) == bs.digits

\* BenchmarkResult._read_results_from_file: {} for an empty or a non-JSON file
ReadIsEmptyDict(f) == file_is_empty(f) \/ ~f.wellformed

\* FIO._get_global_options
get_global_options(opts) ==
    [number_of_jobs |-> StrInt(opts.numjobs),
     runtime_seconds |-> StrInt(opts.runtime),
     blocksize |-> get_blocksize(opts.bs),
     percentage_reads |-> IF opts.has_rwmix THEN opts.rwmixread ELSE -1,
     percentage_writes |-> IF opts.has_rwmix THEN opts.rwmixwrite ELSE -1]

\* BenchmarkResult.operation: the rw option, prefixed by the read/write mix if any
\* (<<rw, -1, -1>> stands for the bare rw string)
operation_of(opts) ==
    LET g == get_global_options(opts)
    IN  <<opts.rw, g.percentage_reads, g.percentage_writes>>

\* FIO._get_iodepth, the for loop over logfile_name.split("/"):
\* a total_iodepth segment sets the value and breaks, an iodepth segment sets it
RECURSIVE LoopIodepth(_, _, _)
LoopIodepth(path, i, acc) ==
    IF i > Len(path) THEN acc
    ELSE IF path[i].kind = "total_iodepth" THEN path[i].n
    ELSE IF path[i].kind = "iodepth" THEN LoopIodepth(path, i + 1, path[i].n)
    ELSE LoopIodepth(path, i + 1, acc)

\* str.find of a keyword: the first segment whose kind holds it, 0 for -1 (no
\* match); kinds are the segment kinds the keyword occurs in
FirstSeg(path, kinds) ==
    IF \E i \in 1..Len(path) : path[i].kind \in kinds
    THEN CHOOSE i \in 1..Len(path) :
            path[i].kind \in kinds /\ \A k \in 1..(i - 1) : path[k].kind \notin kinds
    ELSE 0

\* FIO._get_iodepth, the old-style branch: int() of the text between
\* "iodepth-" and "/numjobs", which is a number only when the numjobs segment
\* directly follows the first segment holding "iodepth"
OldStyleIodepth(path) ==
    LET i == FirstSeg(path, {"total_iodepth", "iodepth"})
        j == FirstSeg(path, {"numjobs"})
    IN  IF i = 0 \/ j = 0 THEN Ok(0)
        ELSE IF j = i + 1 THEN Ok(path[i].n)
        ELSE Raise("ValueError", 0)

\* FIO._get_iodepth, the value read from the path: the loop's, or, when the loop
\* left 0, the old-style branch's
LogfileIodepth(path, inloop) == IF inloop = 0 THEN OldStyleIodepth(path) ELSE Ok(inloop)

\* a plausible slip: min in place of max
MaxIodepthAsMin(iodepth_value, logfile_iodepth) ==
    IF logfile_iodepth.err # "none" THEN logfile_iodepth
    ELSE Ok(IF iodepth_value < logfile_iodepth.val THEN iodepth_value
            ELSE logfile_iodepth.val)

\* FIO._get_iodepth, its last statement: iodepth = max(iodepth, logfile_iodepth)
MaxIodepth(iodepth_value, logfile_iodepth) ==
    IF logfile_iodepth.err # "none" THEN logfile_iodepth
    ELSE Ok(IMax(iodepth_value, logfile_iodepth.val))

\* FIO._get_iodepth
get_iodepth(iodepth_value, path) ==
    MaxIodepth(iodepth_value, LogfileIodepth(path, LoopIodepth(path, 1, 0)))

-----------------------------------------------------------------------------
(* The FIO reader: benchmarks/benchmark_result.py and benchmarks/fio.py *)

\* job in ["read", "write"] and isinstance(job_data, dict)
OfInterest(sec) == sec.job \in {"read", "write"}

RECURSIVE SumInt(_, _, _)
SumInt(secs, field, n) ==
    IF n = 0 THEN 0 ELSE SumInt(secs, field, n - 1) + secs[n][field]

RECURSIVE SumRat(_, _, _)
SumRat(secs, field, n) ==
    IF n = 0 THEN Rat(0) ELSE RAdd(SumRat(secs, field, n - 1), secs[n][field])

\* the io_details dict of a reader, or of a fold
IoDetails(io_bytes, bandwidth_bytes, iops, latency, std_deviation, total_ios) ==
    [io_bytes |-> io_bytes, bandwidth_bytes |-> bandwidth_bytes, iops |-> iops,
     latency |-> latency, std_deviation |-> std_deviation, total_ios |-> total_ios]

NoDetails == IoDetails(StrInt(0), StrInt(0), StrFloat(Rat(0)), StrFloat(Rat(0)),
                       StrFloat([sq |-> Rat(0)]), StrInt(0))

\* the two combinator calls both callers make, one after the other: the first
\* exception raised, or the mean and the standard deviation
BothStats(mean, std) ==
    IF mean.err # "none" THEN Raise(mean.err, [mean |-> Rat(0), std |-> [sq |-> Rat(0)]])
    ELSE IF std.err # "none" THEN Raise(std.err, [mean |-> Rat(0), std |-> [sq |-> Rat(0)]])
    ELSE Ok([mean |-> mean.val, std |-> std.val])

StatsWithMean(latencies, operations, std_deviations, total_ios, mean) ==
    BothStats(mean, sum_standard_deviation_values(std_deviations, operations, latencies,
                                                  total_ios, mean.val))

CombineStats(latencies, operations, std_deviations, total_ios) ==
    StatsWithMean(latencies, operations, std_deviations, total_ios,
                  sum_mean_values(latencies, operations, total_ios))

\* FIO._get_io_details, the dict it builds once the statistics are combined
IoDetailsOfSections(secs, stats) ==
    IF stats.err # "none" THEN Raise(stats.err, NoDetails)
    ELSE Ok(IoDetails(StrInt(SumInt(secs, "io_bytes", Len(secs))),
                      StrInt(SumInt(secs, "bw_bytes", Len(secs))),
                      StrFloat(SumRat(secs, "iops", Len(secs))),
                      StrFloat(stats.val.mean),
                      StrFloat(stats.val.std),
                      StrInt(SumInt(secs, "total_ios", Len(secs)))))

\* FIO._get_io_details over the sub-sections of interest
IoOfInterest(secs) ==
    IoDetailsOfSections(secs,
        CombineStats([i \in 1..Len(secs) |-> secs[i].mean],
                     [i \in 1..Len(secs) |-> secs[i].total_ios],
                     [i \in 1..Len(secs) |-> secs[i].stddev],
                     SumInt(secs, "total_ios", Len(secs))))

\* FIO._get_io_details: sum the read and write sub-sections of every job,
\* combine their means and standard deviations with total_ios as weights
get_io_details(sections) == IoOfInterest(SelectSeq(sections, OfInterest))

\* BenchmarkResult.__init__ and the properties read by _convert_file:
\* self._data["global options"] of {} is a KeyError, and so is
\* self._data['global options']['iodepth'] of a file that does not set iodepth
FIOFields(f, depth, io) ==
    IF ReadIsEmptyDict(f) THEN Raise("KeyError", <<>>)
    ELSE IF ~f.opts.has_iodepth THEN Raise("KeyError", <<>>)
    ELSE IF depth.err # "none" THEN Raise(depth.err, <<>>)
    ELSE IF io.err # "none" THEN Raise(io.err, <<>>)
    ELSE Ok([iodepth |-> depth.val,
             blocksize |-> get_blocksize(f.opts.bs),
             operation |-> operation_of(f.opts),
             global_options |-> get_global_options(f.opts),
             io_details |-> io.val])

\* FIO(file_path): the reader's fields, or the exception its constructor raised
FIO(f) == FIOFields(f, get_iodepth(f.opts.iodepth, f.path), get_io_details(f.sections))

-----------------------------------------------------------------------------
(* The FIO resource reader: resources/resource_result.py, fio_resource.py *)

NoResource == [source |-> "fio", cpu |-> StrFloat(Rat(0)), memory |-> StrFloat(Rat(0))]

\* FIOResource._parse: cpu = sys_cpu + usr_cpu of jobs[0], memory = 0.0
FIOResource_parse(f) ==
    IF ReadIsEmptyDict(f) THEN Raise("KeyError", NoResource)
    ELSE IF f.njobs = 0 THEN Raise("IndexError", NoResource)
    ELSE IF ~f.has_cpu THEN Raise("KeyError", NoResource)
    ELSE Ok([source |-> "fio",
             cpu |-> FormatF6(RAdd(f.sys_cpu, f.usr_cpu)),
             memory |-> FormatF6(Rat(0))])

\* ResourceResult.get: parse on first use, return source, cpu and memory
FIOResource_get(f) == FIOResource_parse(f)

-----------------------------------------------------------------------------
(* The run aggregator: run_results/run_result.py and run_results/rbdfio.py *)

\* a plausible slip: iops recombined as a mean weighted by the two sample counts,
\* the way the latency is, instead of added
SummedDetailsWeighted(existing_values, new_values, total_ios, stats) ==
    IF stats.err # "none" THEN Raise(stats.err, NoDetails)
    ELSE Ok(IoDetails(StrFloat(RAdd(existing_values.io_bytes.v, new_values.io_bytes.v)),
                      StrFloat(RAdd(existing_values.bandwidth_bytes.v,
                                    new_values.bandwidth_bytes.v)),
                      StrFloat(RDiv(RAdd(RMul(existing_values.iops.v,
                                              existing_values.total_ios.v),
                                         RMul(new_values.iops.v, new_values.total_ios.v)),
                                    Rat(total_ios))),
                      StrFloat(stats.val.mean),
                      StrFloat(stats.val.std),
                      StrInt(total_ios)))

\* RBDFIO._sum_io_details, the dict it builds once the statistics are combined
SummedDetails(existing_values, new_values, total_ios, stats) ==
    IF stats.err # "none" THEN Raise(stats.err, NoDetails)
    ELSE Ok(IoDetails(StrFloat(RAdd(existing_values.io_bytes.v, new_values.io_bytes.v)),
                      StrFloat(RAdd(existing_values.bandwidth_bytes.v,
                                    new_values.bandwidth_bytes.v)),
                      StrFloat(RAdd(existing_values.iops.v, new_values.iops.v)),
                      StrFloat(stats.val.mean),
                      StrFloat(stats.val.std),
                      StrInt(total_ios)))

\* a plausible slip: the new shard's count stored instead of the sum
SumWithCountsKeepNew(existing_values, new_values, e_ios, n_ios) ==
    IF e_ios.err # "none" \/ n_ios.err # "none" THEN Raise("ValueError", NoDetails)
    ELSE SummedDetails(existing_values, new_values, n_ios.val,
             CombineStats(<<existing_values.latency.v, new_values.latency.v>>,
                          <<e_ios.val, n_ios.val>>,
                          <<existing_values.std_deviation.v, new_values.std_deviation.v>>,
                          e_ios.val + n_ios.val))

\* RBDFIO._sum_io_details with the two total_ios parsed by int()
SumWithCounts(existing_values, new_values, e_ios, n_ios) ==
    IF e_ios.err # "none" \/ n_ios.err # "none" THEN Raise("ValueError", NoDetails)
    ELSE SummedDetails(existing_values, new_values, e_ios.val + n_ios.val,
             CombineStats(<<existing_values.latency.v, new_values.latency.v>>,
                          <<e_ios.val, n_ios.val>>,
                          <<existing_values.std_deviation.v, new_values.std_deviation.v>>,
                          e_ios.val + n_ios.val))

\* a plausible slip: an idempotent fold that returns the existing values untouched
sum_io_details_idempotent(existing_values, new_values) ==
    Ok(IoDetails(existing_values.io_bytes, existing_values.bandwidth_bytes,
                 existing_values.iops, existing_values.latency,
                 existing_values.std_deviation, existing_values.total_ios))

\* RBDFIO._sum_io_details: io_bytes, iops and bandwidth_bytes are added as floats,
\* total_ios as ints, latency and std_deviation are recombined with the two
\* total_ios as weights
sum_io_details(existing_values, new_values) ==
    SumWithCounts(existing_values, new_values,
                  PyInt(existing_values.total_ios), PyInt(new_values.total_ios))

\* the dict stored at a leaf: the file's global options, updated with the io
\* details, updated with the resource reader's dict
Leaf(g, io, res) ==
    [number_of_jobs |-> g.number_of_jobs, runtime_seconds |-> g.runtime_seconds,
     blocksize |-> g.blocksize, percentage_reads |-> g.percentage_reads,
     percentage_writes |-> g.percentage_writes,
     io_bytes |-> io.io_bytes, bandwidth_bytes |-> io.bandwidth_bytes, iops |-> io.iops,
     latency |-> io.latency, std_deviation |-> io.std_deviation, total_ios |-> io.total_ios,
     source |-> res.source, cpu |-> res.cpu, memory |-> res.memory]

\* the leaf key of a read file
KeyOf(io) == <<io.operation, io.blocksize, io.iodepth>>

\* a plausible slip: the operation's dict is updated with a blocksize dict that
\* holds the new leaf only, so the other iodepth leaves of that operation and
\* blocksize are dropped
PutReplacesBlocksize(data, key, leaf) ==
    [k \in {d \in DOMAIN data : d[1] # key[1] \/ d[2] # key[2]} \cup {key} |->
        IF k = key THEN leaf ELSE data[k]]

\* the three nested dicts of _processed_data as one map; no nested dict is ever
\* empty, so .get(operation), .get(blocksize) and .get(iodepth) are all truthy
\* exactly when the key is in the map
Put(data, key, leaf) ==
    [k \in DOMAIN data \cup {key} |-> IF k = key THEN leaf ELSE data[k]]

\* a plausible slip: the leaf is stored as soon as it holds the io details, and
\* resource.get() updates it afterwards, so a failing resource reader leaves a
\* leaf without source, cpu and memory in the map
StoreLeafBeforeResource(data, io, io_details, res) ==
    IF io_details.err # "none" THEN Raise(io_details.err, data)
    ELSE IF res.err # "none"
    THEN Raise(res.err,
               Put(data, KeyOf(io),
                   [k \in {"number_of_jobs", "runtime_seconds", "blocksize",
                            "percentage_reads", "percentage_writes"} |-> io.global_options[k]]
                       @@ io_details.val))
    ELSE Ok(Put(data, KeyOf(io), Leaf(io.global_options, io_details.val, res.val)))

\* a plausible slip: a leaf that exists keeps the resource fields it has
StoreLeafKeepsResource(data, io, io_details, res) ==
    IF io_details.err # "none" THEN Raise(io_details.err, data)
    ELSE IF res.err # "none" THEN Raise(res.err, data)
    ELSE Ok(Put(data, KeyOf(io),
                Leaf(io.global_options, io_details.val,
                     IF KeyOf(io) \in DOMAIN data
                     THEN [source |-> data[KeyOf(io)].source, cpu |-> data[KeyOf(io)].cpu,
                           memory |-> data[KeyOf(io)].memory]
                     ELSE res.val)))

\* RunResult._convert_file, its last statements: update the leaf with the io
\* details and with resource.get(), store it
StoreLeaf(data, io, io_details, res) ==
    IF io_details.err # "none" THEN Raise(io_details.err, data)
    ELSE IF res.err # "none" THEN Raise(res.err, data)
    ELSE Ok(Put(data, KeyOf(io), Leaf(io.global_options, io_details.val, res.val)))

\* RunResult._convert_file once the reader is built: recombine with the leaf
\* already stored at the key, or take the file's own io details
ConvertRead(data, f, io) ==
    IF io.err # "none" THEN Raise(io.err, data)
    ELSE StoreLeaf(data, io.val,
                   IF KeyOf(io.val) \in DOMAIN data
                   THEN sum_io_details(data[KeyOf(io.val)], io.val.io_details)
                   ELSE Ok(io.val.io_details),
                   FIOResource_get(f))

\* RunResult._convert_file: the new _processed_data, or the exception raised
convert_file(data, f) == ConvertRead(data, f, FIO(f))

\* list.remove(x): the list without the first element equal to x
Remove(list, x) ==
    LET i == CHOOSE i \in 1..Len(list) : list[i] = x /\ \A k \in 1..(i - 1) : list[k] # x
    IN  [k \in 1..(Len(list) - 1) |-> IF k < i THEN list[k] ELSE list[k + 1]]

-----------------------------------------------------------------------------
(* The files a run can discover *)

Sec(job, io_bytes, bw_bytes, iops, total_ios, mean, sd) ==
    [job |-> job, io_bytes |-> io_bytes, bw_bytes |-> bw_bytes, iops |-> iops,
     total_ios |-> total_ios, mean |-> mean, stddev |-> [sq |-> RMul(sd, sd)]]

\* the zero sub-section fio writes for the direction a job does not use
ZeroSec(job) == Sec(job, 0, 0, Rat(0), 0, Rat(0), Rat(0))

BaseOpts ==
    [bs |-> [digits |-> 4096, suffix |-> "B"], rw |-> "read",
     has_iodepth |-> TRUE, iodepth |-> 2, numjobs |-> 1, runtime |-> 60,
     has_rwmix |-> FALSE, rwmixread |-> 0, rwmixwrite |-> 0]

\* one shard on key (read, 4096, 2): a pure read job
ShardA ==
    [empty |-> FALSE, wellformed |-> TRUE,
     path |-> <<Seg("dir", 0), Seg("total_iodepth", 2)>>,
     opts |-> BaseOpts,
     sections |-> <<Sec("read", 1000, 100, <<201, 2>>, 2, Rat(1), Rat(1)), ZeroSec("write")>>,
     njobs |-> 1, has_cpu |-> TRUE, sys_cpu |-> <<3, 2>>, usr_cpu |-> Rat(1)]

\* another shard on the same key: a mixed job
ShardB ==
    [ShardA EXCEPT !.sections = <<Sec("read", 600, 60, Rat(30), 3, Rat(2), Rat(1)),
                                  Sec("write", 400, 40, Rat(20), 2, Rat(1), Rat(1))>>,
                   !.sys_cpu = Rat(4)]

\* a shard on another key: the path raises the iodepth to 3
ShardC ==
    [ShardA EXCEPT !.path = <<Seg("dir", 0), Seg("total_iodepth", 3)>>,
                   !.sections = <<Sec("read", 500, 50, Rat(25), 3, Rat(3), Rat(0)),
                                  ZeroSec("write")>>,
                   !.usr_cpu = Rat(5)]

\* a shard of another operation and another blocksize: a pure write job of 8192B
ShardD ==
    [ShardA EXCEPT !.opts.rw = "write", !.opts.bs = [digits |-> 8192, suffix |-> "B"],
                   !.sections = <<ZeroSec("read"),
                                  Sec("write", 800, 80, Rat(40), 4, Rat(2), Rat(1))>>]

\* a warm-up file: "precond" in its path
PrecondFile == [ShardA EXCEPT !.path = <<Seg("precond", 0), Seg("total_iodepth", 2)>>]

\* a zero-byte file
EmptyFile == [ShardA EXCEPT !.empty = TRUE]

\* a non-empty file that json.load rejects
MalformedFile == [ShardA EXCEPT !.wellformed = FALSE]

\* a shard on the key of shard A whose first job holds no sys_cpu and usr_cpu:
\* the FIO reader reads it, the resource reader raises KeyError
NoCpuFile ==
    [ShardA EXCEPT !.sections = <<Sec("read", 300, 30, Rat(15), 3, Rat(2), Rat(0)),
                                  ZeroSec("write")>>,
                   !.has_cpu = FALSE]

\* the discovered files are held by name; FileOf gives a name's path and content
Catalogue ==
    {"ShardA", "ShardB", "ShardC", "ShardD", "PrecondFile", "EmptyFile", "MalformedFile",
     "NoCpuFile"}

FileOf(name) ==
    CASE name = "ShardA" -> ShardA
      [] name = "ShardB" -> ShardB
      [] name = "ShardC" -> ShardC
      [] name = "ShardD" -> ShardD
      [] name = "PrecondFile" -> PrecondFile
      [] name = "EmptyFile" -> EmptyFile
      [] name = "MalformedFile" -> MalformedFile
      [] name = "NoCpuFile" -> NoCpuFile

FileLists == UNION {[1..n -> Catalogue] : n \in 0..MaxFiles}

\* a file _process_test_run_files is meant to convert
Usable(f) == ~file_is_empty(f) /\ ~file_is_precondition(f)

NoData == [k \in {} |-> 0]

-----------------------------------------------------------------------------
(* The run aggregator as a state machine *)

Init ==
    /\ disc \in FileLists
    /\ files = [i \in 1..Len(disc) |-> i]
    /\ processed_data = NoData
    /\ has_been_processed = FALSE
    /\ pc = "idle"
    /\ idx = 0
    /\ raised = "none"
    /\ foldlog = <<>>
    /\ passes = 0
    /\ process_calls = 0
    /\ args = <<>>
    /\ result = NoData

\* RunResult.process up to the for loop; mode tells which call the loop runs in
Start(mode) ==
    /\ pc = "idle"
    /\ passes < MaxPasses
    /\ passes' = passes + 1
    /\ process_calls' = IF mode = "process" THEN process_calls + 1 ELSE process_calls
    /\ raised' = "none"
    /\ idx' = 0
    /\ IF Len(files) > 0
       THEN /\ pc' = mode
            /\ UNCHANGED <<has_been_processed, result>>
       ELSE /\ pc' = "idle"
            /\ has_been_processed' = TRUE
            /\ result' = IF mode = "get" THEN processed_data ELSE result
    /\ UNCHANGED <<disc, files, processed_data, foldlog, args>>

\* a call of process()
Process == Start("process")

\* a plausible slip: get() without the _has_been_processed test
GetAlwaysProcesses == Start("get")

\* a call of get(): process() unless already processed, then return the map
Get ==
    IF has_been_processed
    THEN /\ pc = "idle"
         /\ result' = processed_data
         /\ UNCHANGED <<disc, files, processed_data, has_been_processed, pc, idx, raised,
                        foldlog, passes, process_calls, args>>
    ELSE Start("get")

\* one iteration of the for loop of _process_test_run_files: the iterator
\* yields files[idx] and advances, whatever the body does to the list
ProcessFile ==
    /\ pc # "idle"
    /\ idx < Len(files)
    /\ \E id \in {files[idx + 1]} :
       \E f \in {FileOf(disc[id])} :
       \E r \in {convert_file(processed_data, f)} :
           /\ idx' = idx + 1
           /\ IF file_is_empty(f)
              THEN UNCHANGED <<files, processed_data, pc, raised, foldlog>>
              ELSE IF file_is_precondition(f)
              THEN /\ files' = Remove(files, id)
                   /\ UNCHANGED <<processed_data, pc, raised, foldlog>>
              ELSE IF r.err = "none"
              THEN /\ processed_data' = r.val
                   /\ foldlog' = Append(foldlog, id)
                   /\ UNCHANGED <<files, pc, raised>>
              ELSE /\ raised' = r.err
                   /\ pc' = "idle"
                   /\ processed_data' = r.val
                   /\ UNCHANGED <<files, foldlog>>
    /\ UNCHANGED <<disc, has_been_processed, passes, process_calls, args, result>>

\* the for loop ends: process() sets _has_been_processed, get() returns the map
EndLoop ==
    /\ pc # "idle"
    /\ idx >= Len(files)
    /\ has_been_processed' = TRUE
    /\ pc' = "idle"
    /\ result' = IF pc = "get" THEN processed_data ELSE result
    /\ UNCHANGED <<disc, files, processed_data, idx, raised, foldlog, passes, process_calls, args>>

Next == Process \/ Get \/ ProcessFile \/ EndLoop

Spec == Init /\ [][Next]_vars

-----------------------------------------------------------------------------
(* Calls of the pure functions: the combinators on bounded lists, and the  *)
(* FIO reader on bounded files                                             *)

Means == {Rat(1), Rat(3)}
Deviations == {[sq |-> Rat(0)], [sq |-> Rat(4)]}
Entries == [mean : Means, ops : 0..MaxWeight, std : Deviations]
EntryLists == UNION {[1..n -> Entries] : n \in 0..MaxShards}

RECURSIVE SumSeq(_)
SumSeq(seq) == IF seq = <<>> THEN 0 ELSE seq[1] + SumSeq(Tail(seq))

RECURSIVE RatSum(_)
RatSum(seq) == IF seq = <<>> THEN Rat(0) ELSE RAdd(seq[1], RatSum(Tail(seq)))

\* the arguments of one call of the two combinators: total_ios is any total
\* up to the largest sum of weights, the sum of these weights among them
NumArgs(list, total) ==
    [kind |-> "num",
     latencies |-> [i \in 1..Len(list) |-> list[i].mean],
     operations |-> [i \in 1..Len(list) |-> list[i].ops],
     std_deviations |-> [i \in 1..Len(list) |-> list[i].std],
     total_ios |-> total,
     combined_latency |-> Rat(0)]

NumInputs ==
    {NumArgs(list, total) :
        list \in EntryLists,
        total \in 0..(MaxShards * MaxWeight)}

Segments ==
    {Seg("dir", 0), Seg("numjobs", 1)}
        \cup {Seg(k, n) : k \in {"total_iodepth", "iodepth"}, n \in 1..MaxDepth}
Paths == UNION {[1..n -> Segments] : n \in 0..MaxSegments}

\* jobs without a read or a write sub-section
OtherSec == Sec("trim", 10, 1, Rat(1), 5, Rat(1), Rat(1))
\* a read job whose write sub-section counts no ios but carries a mean and a
\* standard deviation, beside a read side that varies (stddev 2) or not
StaleWrite == Sec("write", 0, 0, Rat(0), 0, Rat(3), Rat(1))
StaleSections ==
    {<<Sec("read", 900, 90, Rat(45), 3, Rat(2), Rat(sd)), StaleWrite>> : sd \in {0, 2}}
SectionChoices ==
    {ShardA.sections, ShardB.sections, <<OtherSec>>, <<ZeroSec("read"), ZeroSec("write")>>}
        \cup StaleSections

FileArgs(path, has_iodepth, iodepth, sections) ==
    [kind |-> "file",
     file |-> [ShardA EXCEPT !.path = path, !.opts.has_iodepth = has_iodepth,
                             !.opts.iodepth = iodepth, !.sections = sections]]

FileInputs ==
    {FileArgs(path, d > 0, d, sections) :
        path \in Paths, d \in 0..MaxDepth, sections \in SectionChoices}
        \cup {[kind |-> "file", file |-> EmptyFile], [kind |-> "file", file |-> MalformedFile]}

\* the files a resource reader is pointed at: one with cpu fields, and files
\* that carry no resource data (empty, unparsable, no job, no cpu fields)
ResourceInputs ==
    {[kind |-> "resource", file |-> f] :
        f \in {ShardA, ShardB, EmptyFile, MalformedFile,
               [ShardA EXCEPT !.njobs = 0], [ShardA EXCEPT !.has_cpu = FALSE]}}

\* the statistics of an existing leaf and of a new shard
PairInputs ==
    {[NumArgs(list, SumSeq([i \in 1..2 |-> list[i].ops])) EXCEPT !.kind = "pair"] :
        list \in [1..2 -> Entries]}

Unset == [fn |-> "none", mean |-> Raise("unset", Rat(0)),
          std |-> Raise("unset", [sq |-> Rat(0)]), out |-> Raise("unset", <<>>)]

InitCall ==
    /\ disc = <<>>
    /\ files = <<>>
    /\ processed_data = NoData
    /\ has_been_processed = FALSE
    /\ pc = "idle"
    /\ idx = 0
    /\ raised = "none"
    /\ foldlog = <<>>
    /\ passes = 0
    /\ process_calls = 0
    /\ args \in NumInputs \cup FileInputs \cup ResourceInputs \cup PairInputs
    /\ result = Unset

\* call sum_mean_values on the lists
CallMean ==
    /\ args.kind = "num"
    /\ result.fn = "none"
    /\ result' = [result EXCEPT !.fn = "mean",
                      !.mean = sum_mean_values(args.latencies, args.operations, args.total_ios)]
    /\ UNCHANGED <<aggVars, args>>

\* call sum_standard_deviation_values with the mean just combined, as the
\* callers do, or with another combined_latency
CallStd ==
    /\ args.kind = "num"
    /\ result.fn = "mean"
    /\ \E combined_latency \in {result.mean.val, Rat(0), Rat(2)} :
          /\ args' = [args EXCEPT !.combined_latency = combined_latency]
          /\ result' = [result EXCEPT !.fn = "std",
                            !.std = sum_standard_deviation_values(
                                        args.std_deviations, args.operations, args.latencies,
                                        args.total_ios, combined_latency)]
    /\ UNCHANGED aggVars

\* construct the FIO reader on the file
ReadFile ==
    /\ args.kind = "file"
    /\ result.fn = "none"
    /\ result' = [result EXCEPT !.fn = "FIO", !.out = FIO(args.file)]
    /\ UNCHANGED <<aggVars, args>>

\* construct the FIO resource reader on the file and call get()
ReadResource ==
    /\ args.kind = "resource"
    /\ result.fn = "none"
    /\ result' = [result EXCEPT !.fn = "FIOResource", !.out = FIOResource_get(args.file)]
    /\ UNCHANGED <<aggVars, args>>

\* the io details of an existing leaf (i = 1) and of a new shard (i = 2) that
\* carry the call's means, sample counts and standard deviations
PairDetails(i) ==
    IoDetails(StrInt(100 * i), StrInt(10 * i), StrFloat(Rat(5 * i)),
              StrFloat(args.latencies[i]), StrFloat(args.std_deviations[i]),
              StrInt(args.operations[i]))

\* call RBDFIO._sum_io_details on an existing leaf and a new shard
SumIoDetails ==
    /\ args.kind = "pair"
    /\ result.fn = "none"
    /\ result' = [result EXCEPT !.fn = "sum_io_details",
                      !.out = sum_io_details(PairDetails(1), PairDetails(2))]
    /\ UNCHANGED <<aggVars, args>>

NextCall == CallMean \/ CallStd \/ ReadFile \/ ReadResource \/ SumIoDetails

SpecCall == InitCall /\ [][NextCall]_vars

-----------------------------------------------------------------------------
(* The run formatter's summary of a canonical run: the maxima over the     *)
(* iodepth entries of one (operation, blocksize) map. The formatter module *)
(* is not among the sources; the two functions follow the specification    *)
(* and the formatter's tests                                               *)

\* an iodepth entry of the map, and an entry that is no dictionary
Entry(bandwidth_bytes, iops, latency, cpu, memory) ==
    [isdict |-> TRUE, bandwidth_bytes |-> bandwidth_bytes, iops |-> iops,
     latency |-> latency, cpu |-> cpu, memory |-> memory]
Metadata ==
    [isdict |-> FALSE, bandwidth_bytes |-> Rat(0), iops |-> Rat(0),
     latency |-> Rat(0), cpu |-> Rat(0), memory |-> Rat(0)]

\* a plausible slip: the maxima start below zero
MaximaInitBelowZero ==
    [max_bandwidth |-> StrFloat(Rat(-1)), bandwidth_latency |-> StrInt(0),
     max_iops |-> StrFloat(Rat(-1)), iops_latency |-> StrInt(0)]

\* the four summary values before any entry is seen: "0"
MaximaInit ==
    [max_bandwidth |-> StrInt(0), bandwidth_latency |-> StrInt(0),
     max_iops |-> StrInt(0), iops_latency |-> StrInt(0)]

\* a plausible slip: the latency kept with a maximum is the largest latency seen
MaximaStepOwnLatency(acc, entry) ==
    IF ~entry.isdict THEN acc
    ELSE [max_bandwidth |-> IF RLess(acc.max_bandwidth.v, entry.bandwidth_bytes)
                            THEN StrFloat(entry.bandwidth_bytes) ELSE acc.max_bandwidth,
          max_iops |-> IF RLess(acc.max_iops.v, entry.iops)
                       THEN StrFloat(entry.iops) ELSE acc.max_iops,
          bandwidth_latency |->
              IF RLess(acc.bandwidth_latency.v, RDiv(entry.latency, Rat(1000000)))
              THEN StrFloat(RDiv(entry.latency, Rat(1000000))) ELSE acc.bandwidth_latency,
          iops_latency |->
              IF RLess(acc.iops_latency.v, RDiv(entry.latency, Rat(1000000)))
              THEN StrFloat(RDiv(entry.latency, Rat(1000000))) ELSE acc.iops_latency]

\* one entry of the map: a dictionary with a larger bandwidth_bytes (iops)
\* replaces the maximum and the latency kept with it, in ms (ns / 1,000,000)
MaximaStep(acc, entry) ==
    IF ~entry.isdict THEN acc
    ELSE [max_bandwidth |-> IF RLess(acc.max_bandwidth.v, entry.bandwidth_bytes)
                            THEN StrFloat(entry.bandwidth_bytes) ELSE acc.max_bandwidth,
          bandwidth_latency |-> IF RLess(acc.max_bandwidth.v, entry.bandwidth_bytes)
                                THEN StrFloat(RDiv(entry.latency, Rat(1000000)))
                                ELSE acc.bandwidth_latency,
          max_iops |-> IF RLess(acc.max_iops.v, entry.iops)
                       THEN StrFloat(entry.iops) ELSE acc.max_iops,
          iops_latency |-> IF RLess(acc.max_iops.v, entry.iops)
                           THEN StrFloat(RDiv(entry.latency, Rat(1000000)))
                           ELSE acc.iops_latency]

RECURSIVE MaximaFold(_, _)
MaximaFold(test_run_data, n) ==
    IF n = 0 THEN MaximaInit
    ELSE MaximaStep(MaximaFold(test_run_data, n - 1), test_run_data[n])

\* CommonOutputFormatter._find_maximum_bandwidth_and_iops_with_latency
find_maximum_bandwidth_and_iops_with_latency(test_run_data) ==
    MaximaFold(test_run_data, Len(test_run_data))

ResourceInit == [max_cpu |-> StrInt(0), max_memory |-> StrInt(0)]

\* a plausible slip: the memory maximum is computed like the cpu maximum
ResourceStepWithMemory(acc, entry) ==
    IF ~entry.isdict THEN acc
    ELSE [max_cpu |-> IF RLess(acc.max_cpu.v, entry.cpu)
                      THEN StrFloat(entry.cpu) ELSE acc.max_cpu,
          max_memory |-> IF RLess(acc.max_memory.v, entry.memory)
                         THEN StrFloat(entry.memory) ELSE acc.max_memory]

\* one entry of the map: a dictionary with a larger cpu replaces the maximum;
\* the memory maximum is left at "0"
ResourceStep(acc, entry) ==
    IF ~entry.isdict THEN acc
    ELSE [max_cpu |-> IF RLess(acc.max_cpu.v, entry.cpu)
                      THEN StrFloat(entry.cpu) ELSE acc.max_cpu,
          max_memory |-> acc.max_memory]

RECURSIVE ResourceFold(_, _)
ResourceFold(test_run_data, n) ==
    IF n = 0 THEN ResourceInit
    ELSE ResourceStep(ResourceFold(test_run_data, n - 1), test_run_data[n])

\* CommonOutputFormatter._find_max_resource_usage
find_max_resource_usage(test_run_data) == ResourceFold(test_run_data, Len(test_run_data))

-----------------------------------------------------------------------------
(* common.py get_latency_throughput_from_file: the throughput and latency  *)
(* a report shows for one intermediate file                                *)

\* f"{x:.0f}" and f"{x:.1f}" of x >= 0: x * scale rounded to the nearest
\* integer, a tie to the even one, over scale (exact for the values used here,
\* whose ties are binary fractions)
RoundHalfEven(q, scale) ==
    LET num == q[1] * scale
        fl == num \div q[2]
        twice == 2 * (num - fl * q[2])
    IN  Norm(IF twice < q[2] THEN fl
             ELSE IF twice > q[2] THEN fl + 1
             ELSE IF fl % 2 = 0 THEN fl ELSE fl + 1, scale)

\* a plausible slip: > in place of >= at the boundary
ThroughputIsBandwidthAbove(blocksize) == (blocksize \div 1024) > 64

\* blocksize = int(int(key_data["blocksize"]) / 1024); if blocksize >= 64
ThroughputIsBandwidth(blocksize) == (blocksize \div 1024) >= 64

\* the pair returned: "<throughput:.0f> <type>" and "<latency:.1f>"
get_latency_throughput_from_file(data) ==
    IF ThroughputIsBandwidth(data.blocksize)
    THEN [throughput |-> RoundHalfEven(RDiv(data.maximum_bandwidth, Rat(1000000)), 1),
          type |-> "MB/s",
          latency |-> RoundHalfEven(data.latency_at_max_bandwidth, 10)]
    ELSE [throughput |-> RoundHalfEven(data.maximum_iops, 1),
          type |-> "IOps",
          latency |-> RoundHalfEven(data.latency_at_max_iops, 10)]

-----------------------------------------------------------------------------
(* Grouping and discovery: the test-run identity of a result file (from    *)
(* the specification, the formatter not being among the sources) and       *)
(* RBDFIO._find_files_for_testrun                                          *)

\* directory names that look like a run identifier, and others
RunIdNames == {"id-a", "id-b"}
DirNames == RunIdNames \cup {"x", "y"}

\* a plausible slip: the immediate parent directory is always the identity
TestRunIdentityParent(dirs) == dirs[Len(dirs)]

\* the identity of a file under the directories dirs (outermost first): the
\* nearest ancestor segment prefixed id-, else the immediate parent's name
TestRunIdentity(dirs) ==
    IF \E i \in 1..Len(dirs) : dirs[i] \in RunIdNames
    THEN dirs[CHOOSE i \in 1..Len(dirs) :
                 /\ dirs[i] \in RunIdNames
                 /\ \A k \in (i + 1)..Len(dirs) : dirs[k] \notin RunIdNames]
    ELSE dirs[Len(dirs)]

\* a file name as a sequence of pieces: the file-name root, a dot, an
\* underscore, a letter that is not in the root, a digit
Tokens == {"root", ".", "_", "w", "d"}

\* Path.glob("**/<root>.*"): the name starts with the root and a dot
GlobMatches(name) == Len(name) >= 2 /\ name[1] = "root" /\ name[2] = "."

\* re.search(rf"{file_name_root}.\d+$", path): somewhere the root, then any
\* one character, then digits up to the end
RegexFinds(name) ==
    \E i \in 1..Len(name) :
        /\ name[i] = "root"
        /\ i + 2 <= Len(name)
        /\ name[i + 1] \in {".", "_", "w", "d"}
        /\ \A k \in (i + 2)..Len(name) : name[k] = "d"

\* RBDFIO._find_files_for_testrun, for one file of the directory: is it returned
find_files_for_testrun(name) == GlobMatches(name) /\ RegexFinds(name)

-----------------------------------------------------------------------------
(* Calls of the summary, report, grouping and discovery functions *)

MaximaEntries ==
    {Metadata} \cup
    {Entry(bw, iops, lat, Rat(0), Rat(0)) :
        bw \in {Rat(1000000), Rat(2000000)}, iops \in {<<201, 2>>, <<401, 2>>},
        lat \in {Rat(5000000), Rat(8000000)}}
UsageEntries ==
    {Metadata} \cup
    {Entry(Rat(0), Rat(0), Rat(0), cpu, mem) :
        cpu \in {<<51, 2>>, <<229, 5>>}, mem \in {Rat(1024), Rat(2048)}}

MaximaInputs ==
    {[kind |-> "maxima", data |-> d] : d \in UNION {[1..n -> MaximaEntries] : n \in 0..MaxEntries}}
UsageInputs ==
    {[kind |-> "usage", data |-> d] : d \in UNION {[1..n -> UsageEntries] : n \in 0..MaxEntries}}

\* intermediate files: the blocksize of the first data point and the four
\* summary values
BlockSizes == {4096, 65535, 65536, 65537, 131072}
IntermediateInputs ==
    {[kind |-> "intermediate",
      data |-> [blocksize |-> bs, maximum_bandwidth |-> bw, maximum_iops |-> iops,
                latency_at_max_bandwidth |-> lbw, latency_at_max_iops |-> liops]] :
        bs \in BlockSizes, bw \in {Rat(2500000), Rat(400000)}, iops \in {<<201, 2>>, Rat(3)},
        lbw \in {Rat(8), <<3, 4>>}, liops \in {<<1, 4>>, <<13, 10>>}}

\* the directories above a result file, with at most one run identifier
RunPaths ==
    {p \in UNION {[1..n -> DirNames] : n \in 1..MaxDirs} :
        Cardinality({i \in 1..Len(p) : p[i] \in RunIdNames}) <= 1}
PathInputs == {[kind |-> "paths", p |-> p, q |-> q] : p \in RunPaths, q \in RunPaths}

NameInputs ==
    {[kind |-> "name", name |-> n] : n \in UNION {[1..k -> Tokens] : k \in 1..MaxTokens}}

InitReport ==
    /\ disc = <<>>
    /\ files = <<>>
    /\ processed_data = NoData
    /\ has_been_processed = FALSE
    /\ pc = "idle"
    /\ idx = 0
    /\ raised = "none"
    /\ foldlog = <<>>
    /\ passes = 0
    /\ process_calls = 0
    /\ args \in MaximaInputs \cup UsageInputs \cup IntermediateInputs
                    \cup PathInputs \cup NameInputs
    /\ result = [fn |-> "none", out |-> <<>>]

FindMaxima ==
    /\ args.kind = "maxima"
    /\ result.fn = "none"
    /\ result' = [fn |-> "maxima",
                  out |-> find_maximum_bandwidth_and_iops_with_latency(args.data)]
    /\ UNCHANGED <<aggVars, args>>

FindMaxResource ==
    /\ args.kind = "usage"
    /\ result.fn = "none"
    /\ result' = [fn |-> "usage", out |-> find_max_resource_usage(args.data)]
    /\ UNCHANGED <<aggVars, args>>

GetLatencyThroughput ==
    /\ args.kind = "intermediate"
    /\ result.fn = "none"
    /\ result' = [fn |-> "throughput", out |-> get_latency_throughput_from_file(args.data)]
    /\ UNCHANGED <<aggVars, args>>

FindTestRunIds ==
    /\ args.kind = "paths"
    /\ result.fn = "none"
    /\ result' = [fn |-> "ids", out |-> <<TestRunIdentity(args.p), TestRunIdentity(args.q)>>]
    /\ UNCHANGED <<aggVars, args>>

FindFiles ==
    /\ args.kind = "name"
    /\ result.fn = "none"
    /\ result' = [fn |-> "find", out |-> find_files_for_testrun(args.name)]
    /\ UNCHANGED <<aggVars, args>>

NextReport == FindMaxima \/ FindMaxResource \/ GetLatencyThroughput \/ FindTestRunIds \/ FindFiles

SpecReport == InitReport /\ [][NextReport]_vars

-----------------------------------------------------------------------------
(* What a shard holds, read from the file itself: the sums over its read   *)
(* and write sub-sections                                                  *)

InterestSet(f) == {i \in 1..Len(f.sections) : f.sections[i].job \in {"read", "write"}}

RECURSIVE SetSumInt(_, _, _)
SetSumInt(f, field, S) ==
    IF S = {} THEN 0
    ELSE LET i == CHOOSE i \in S : TRUE
         IN  f.sections[i][field] + SetSumInt(f, field, S \ {i})

RECURSIVE SetSumRat(_, _, _)
SetSumRat(f, field, S) ==
    IF S = {} THEN Rat(0)
    ELSE LET i == CHOOSE i \in S : TRUE
         IN  RAdd(f.sections[i][field], SetSumRat(f, field, S \ {i}))

ShardInt(f, field) == SetSumInt(f, field, InterestSet(f))
ShardRat(f, field) == SetSumRat(f, field, InterestSet(f))

\* the leaf key the reader gives the discovered file at a position
FileKey(f) ==
    <<operation_of(f.opts), get_blocksize(f.opts.bs), get_iodepth(f.opts.iodepth, f.path).val>>
KeyOfName == [name \in Catalogue |-> FileKey(FileOf(name))]
KeyAt(id) == KeyOfName[disc[id]]

\* how often the file at a position was folded, and the folds that hit a key
FoldCount(id) == Cardinality({i \in 1..Len(foldlog) : foldlog[i] = id})
FoldsOnto(key) == {i \in 1..Len(foldlog) : KeyAt(foldlog[i]) = key}

\* the sums of each file of the catalogue, by name
ShardSums ==
    [name \in Catalogue |->
        [total_ios |-> ShardInt(FileOf(name), "total_ios"),
         io_bytes |-> Rat(ShardInt(FileOf(name), "io_bytes")),
         bw_bytes |-> Rat(ShardInt(FileOf(name), "bw_bytes")),
         iops |-> ShardRat(FileOf(name), "iops")]]

RECURSIVE FoldedTotal(_)
FoldedTotal(S) ==
    IF S = {} THEN 0
    ELSE LET i == CHOOSE i \in S : TRUE
         IN  ShardSums[disc[foldlog[i]]].total_ios + FoldedTotal(S \ {i})

\* the plain sum of a field over the shards of a set of folds
RECURSIVE FoldedSum(_, _)
FoldedSum(S, field) ==
    IF S = {} THEN Rat(0)
    ELSE LET i == CHOOSE i \in S : TRUE
         IN  RAdd(ShardSums[disc[foldlog[i]]][field], FoldedSum(S \ {i}, field))

\* the last fold onto a key
LastFoldOnto(key) == CHOOSE i \in 1..Len(foldlog) :
    KeyAt(foldlog[i]) = key /\ \A k \in (i + 1)..Len(foldlog) : KeyAt(foldlog[k]) # key

PassOver == pc = "idle" /\ passes >= 1

-----------------------------------------------------------------------------
(* Claims *)

\* C1: after any sequence of folds, every leaf of the canonical map has
\* total_ios equal to the sum of the total_ios of all shards folded onto its
\* key, and every key a shard was folded onto has a leaf.
C1_LeafTotalIsSumOfFolds ==
    /\ \A key \in DOMAIN processed_data :
          processed_data[key].total_ios = StrInt(FoldedTotal(FoldsOnto(key)))
    /\ \A i \in 1..Len(foldlog) : KeyAt(foldlog[i]) \in DOMAIN processed_data

\* C1 witness: one pass folded the shards A (2 ios) and B (5 ios) onto one key.
C1_Witness ==
    /\ PassOver /\ passes = 1
    /\ \E i, j \in 1..Len(foldlog) :
          /\ foldlog[i] # foldlog[j]
          /\ disc[foldlog[i]] # disc[foldlog[j]]
          /\ KeyAt(foldlog[i]) = KeyAt(foldlog[j])
          /\ processed_data[KeyAt(foldlog[i])].total_ios = StrInt(7)

\* C2: in one process() pass every discovered file that is non-empty and not
\* precondition-marked is folded exactly once, and no empty or
\* precondition-marked file is folded, wherever the precondition-marked
\* files sit in the list.
C2_EveryUsableFileFoldedOnce ==
    (PassOver /\ passes = 1 /\ raised = "none") =>
        \A id \in 1..Len(disc) :
            FoldCount(id) = IF Usable(FileOf(disc[id])) THEN 1 ELSE 0

\* C3: when a non-empty file of a run holds malformed JSON, process() does
\* not raise, that file contributes nothing and every other usable file is
\* folded (runs without precondition-marked files, which C2 is about).
C3_MalformedFileIsSkipped ==
    (/\ PassOver /\ passes = 1
     /\ \E id \in 1..Len(disc) : disc[id] = "MalformedFile"
     /\ \A id \in 1..Len(disc) : ~file_is_precondition(FileOf(disc[id]))) =>
        /\ raised = "none"
        /\ \A id \in 1..Len(disc) :
              FoldCount(id) = IF Usable(FileOf(disc[id])) /\ FileOf(disc[id]).wellformed
                              THEN 1 ELSE 0

\* C4: folding a shard onto a key that already has a leaf adds the shard's
\* total_ios, io_bytes, bandwidth_bytes and iops to the leaf's, also when the
\* same shard was folded before (a second process() call): the fold is not
\* idempotent.
C4_FoldAddsShardAgain ==
    [][(foldlog' # foldlog /\ KeyAt(foldlog'[Len(foldlog')]) \in DOMAIN processed_data) =>
          LET id == foldlog'[Len(foldlog')]
              f == FileOf(disc[id])
              old == processed_data[KeyAt(id)]
              new == processed_data'[KeyAt(id)]
          IN  /\ new.total_ios.v = RAdd(old.total_ios.v, Rat(ShardInt(f, "total_ios")))
              /\ new.io_bytes.v = RAdd(old.io_bytes.v, Rat(ShardInt(f, "io_bytes")))
              /\ new.bandwidth_bytes.v = RAdd(old.bandwidth_bytes.v, Rat(ShardInt(f, "bw_bytes")))
              /\ new.iops.v = RAdd(old.iops.v, ShardRat(f, "iops"))]_vars

\* C4 witness: a run of the single shard A, processed twice: its leaf counts
\* the shard's 2 ios and 1000 bytes twice.
C4_Witness ==
    /\ disc = <<"ShardA">>
    /\ foldlog = <<1, 1>>
    /\ processed_data[KeyAt(1)].total_ios = StrInt(4)
    /\ processed_data[KeyAt(1)].io_bytes = StrFloat(Rat(2000))

\* the sum of the weights of the call, and the sum of mean * weight
TotalWeight == SumSeq(args.operations)
WeightedMeans ==
    RatSum([i \in 1..Len(args.latencies) |->
                RMul(args.latencies[i], Rat(args.operations[i]))])

\* C5: sum_mean_values returns sum(mean_i * weight_i) / total weight for every
\* list of means and weights whose total weight is positive and equals the
\* total_ios argument.
C5_MeanIsWeightedAverage ==
    (args.kind = "num" /\ result.fn # "none"
        /\ TotalWeight > 0 /\ TotalWeight = args.total_ios) =>
        /\ result.mean.err = "none"
        /\ RMul(result.mean.val, Rat(TotalWeight)) = WeightedMeans

\* C5 witness: two entries of different means and different positive weights,
\* combined to a mean that is no integer.
C5_Witness ==
    /\ args.kind = "num" /\ result.fn = "mean"
    /\ Len(args.latencies) = 2
    /\ args.latencies[1] # args.latencies[2]
    /\ args.operations[1] > 0 /\ args.operations[2] > args.operations[1]
    /\ TotalWeight = args.total_ios
    /\ result.mean.err = "none" /\ result.mean.val[2] > 1

\* sum of [(w_i - 1) * stddev_i^2 + w_i * mean_i^2], and the quantity under the
\* square root for the call's totalWeight (not 1) and combinedMean
PooledSum ==
    RatSum([i \in 1..Len(args.std_deviations) |->
                RAdd(RMul(Rat(args.operations[i] - 1), args.std_deviations[i].sq),
                     RMul(Rat(args.operations[i]),
                          RMul(args.latencies[i], args.latencies[i])))])
PooledVariance ==
    RDiv(RSub(PooledSum,
              RMul(Rat(args.total_ios), RMul(args.combined_latency, args.combined_latency))),
         Rat(args.total_ios - 1))

\* C6: for every input with totalWeight >= 2,
\* sum_standard_deviation_values returns the square root of
\* (sum[(w_i - 1) * stddev_i^2 + w_i * mean_i^2] - totalWeight * combinedMean^2)
\* / (totalWeight - 1).
C6_StdIsPooledRoot ==
    (args.kind = "num" /\ result.fn = "std" /\ args.total_ios >= 2) =>
        /\ result.std.err = "none"
        /\ result.std.val.sq = PooledVariance

\* C6, where the root exists: for every input with totalWeight >= 2 for which that
\* quantity is not negative the function returns its square root; when the
\* quantity is negative the function raises ValueError (math domain error).
C6_StdIsPooledRootWhenDefined ==
    (args.kind = "num" /\ result.fn = "std" /\ args.total_ios >= 2) =>
        IF RLeq(Rat(0), PooledVariance)
        THEN result.std.err = "none" /\ result.std.val.sq = PooledVariance
        ELSE result.std.err = "ValueError"

\* C6 witness: two entries with the weights' sum as totalWeight and their
\* weighted mean as combinedMean, and a positive variance returned.
C6_Witness ==
    /\ args.kind = "num" /\ result.fn = "std"
    /\ Len(args.latencies) = 2 /\ args.latencies[1] # args.latencies[2]
    /\ args.operations[1] > 0 /\ args.operations[2] > 0
    /\ args.total_ios = TotalWeight /\ args.total_ios >= 2
    /\ args.combined_latency = result.mean.val /\ result.mean.err = "none"
    /\ result.std.err = "none" /\ RLess(Rat(0), result.std.val.sq)

\* C7: sum_standard_deviation_values fails with an error for every input whose
\* totalWeight is 0 or 1; it never returns a number for such input.
C7_StdRejectsDegenerateTotal ==
    (args.kind = "num" /\ result.fn = "std" /\ args.total_ios \in {0, 1}) =>
        result.std.err # "none"

\* the read and write sub-sections of the file under the reader
FileWeight == ShardInt(args.file, "total_ios")
FileReadable == ~args.file.empty /\ args.file.wellformed
\* the statistics of the file's read and write sub-sections combine without error
IoCombines == get_io_details(args.file.sections).err = "none"
PathEncodings ==
    {i \in 1..Len(args.file.path) : args.file.path[i].kind \in {"total_iodepth", "iodepth"}}

\* C8: sum_mean_values fails with a division-by-zero error whenever the total
\* weight is 0, and so does the reader of a file whose jobs hold no read or
\* write sub-section (or only sub-sections of no ios), since no weight is
\* collected.
C8_ZeroWeightIsDivisionByZero ==
    /\ (args.kind = "num" /\ result.fn # "none"
            /\ TotalWeight = 0 /\ args.total_ios = 0) =>
           result.mean.err = "ZeroDivisionError"
    /\ (args.kind = "file" /\ result.fn = "FIO" /\ FileReadable
            /\ args.file.opts.has_iodepth /\ FileWeight = 0) =>
           result.out.err = "ZeroDivisionError"

\* C8 witness: the reader was built on a readable file whose jobs hold only
\* a sub-section that is neither read nor write.
C8_Witness ==
    /\ args.kind = "file" /\ result.fn = "FIO" /\ FileReadable
    /\ args.file.opts.has_iodepth
    /\ Len(args.file.sections) = 1 /\ InterestSet(args.file) = {}
    /\ result.out.err = "ZeroDivisionError"

C10_FailsExactlyWhenNoIodepthSource ==
    (args.kind = "file" /\ result.fn = "FIO" /\ FileReadable /\ FileWeight >= 2
        /\ IoCombines) =>
        (result.out.err # "none"
            <=> (~args.file.opts.has_iodepth /\ PathEncodings = {}))

\* C11: a run that yields no usable file (none discovered, or every one empty
\* or precondition-marked) gives an empty canonical map: process() and get()
\* return without raising and the map has no key.
C11_NoUsableFileGivesEmptyMap ==
    (\A id \in 1..Len(disc) : disc[id] \in {"EmptyFile", "PrecondFile"}) =>
        /\ raised = "none"
        /\ processed_data = NoData
        /\ result = NoData

\* C11 witness: get() returned on a run of a precondition-marked file and an
\* empty file.
C11_Witness ==
    /\ disc = <<"PrecondFile", "EmptyFile">>
    /\ PassOver /\ has_been_processed
    /\ raised = "none" /\ processed_data = NoData /\ result = NoData

\* C13: at a leaf onto which several shards were folded, cpu, memory and source
\* are those of the last shard folded onto the key (cpu = sys_cpu + usr_cpu of
\* that file, memory 0, source fio), never a sum over the shards.
C13_LeafResourceIsLastShards ==
    \A key \in DOMAIN processed_data :
        FoldsOnto(key) # {} =>
            LET f == FileOf(disc[foldlog[LastFoldOnto(key)]])
            IN  /\ processed_data[key].cpu.v = RAdd(f.sys_cpu, f.usr_cpu)
                /\ processed_data[key].memory.v = Rat(0)
                /\ processed_data[key].source = "fio"

\* C13 witness: shard A (cpu 5/2) then shard B (cpu 5) folded onto one key.
C13_Witness ==
    /\ disc = <<"ShardA", "ShardB">>
    /\ foldlog = <<1, 2>>
    /\ KeyAt(1) = KeyAt(2)
    /\ processed_data[KeyAt(1)].cpu.v = Rat(5)

\* C14: a leaf's io_bytes, bandwidth_bytes and iops are the plain sums of the
\* values of the shards recombined at it, with no weighting by sample count.
C14_LeafSumsArePlain ==
    \A key \in DOMAIN processed_data :
        /\ processed_data[key].io_bytes.v = FoldedSum(FoldsOnto(key), "io_bytes")
        /\ processed_data[key].bandwidth_bytes.v = FoldedSum(FoldsOnto(key), "bw_bytes")
        /\ processed_data[key].iops.v = FoldedSum(FoldsOnto(key), "iops")

\* C14 witness: shard A (2 ios, iops 201/2) and shard B (5 ios, iops 50)
\* recombined at one leaf.
C14_Witness ==
    /\ disc = <<"ShardA", "ShardB">>
    /\ foldlog = <<1, 2>>
    /\ processed_data[KeyAt(1)].iops.v = <<301, 2>>
    /\ processed_data[KeyAt(1)].io_bytes.v = Rat(2000)

\* C12: a resource reader pointed at a file that carries no resource data
\* (empty, unparsable, no job, no cpu fields) returns zero-valued cpu and
\* memory and does not raise.
C12_NoResourceDataGivesZeros ==
    (/\ args.kind = "resource" /\ result.fn = "FIOResource"
     /\ (args.file.empty \/ ~args.file.wellformed
            \/ args.file.njobs = 0 \/ ~args.file.has_cpu)) =>
        /\ result.out.err = "none"
        /\ result.out.val.cpu.v = Rat(0)
        /\ result.out.val.memory.v = Rat(0)


\* the dictionary entries of the map given to a summary function
DictEntries == {i \in 1..Len(args.data) : args.data[i].isdict}
Near(x, y, tol) == RLeq(RSub(x, y), tol) /\ RLeq(RSub(y, x), tol)
RunIdsOf(dirs) == {dirs[i] : i \in {k \in 1..Len(dirs) : dirs[k] \in RunIdNames}}

\* C15: the latency reported with a maximum is the latency, in ms, of an
\* entry that holds that maximum: latency_at_max_bandwidth of an entry with
\* the largest bandwidth_bytes, latency_at_max_iops of an entry with the
\* largest iops; entries that are no dictionaries are ignored.
C15_LatencyIsOfTheMaximumEntry ==
    (args.kind = "maxima" /\ result.fn = "maxima" /\ DictEntries # {}) =>
        /\ \E i \in DictEntries :
              /\ \A k \in DictEntries :
                    RLeq(args.data[k].bandwidth_bytes, args.data[i].bandwidth_bytes)
              /\ result.out.max_bandwidth.v = args.data[i].bandwidth_bytes
              /\ result.out.bandwidth_latency.v = RDiv(args.data[i].latency, Rat(1000000))
        /\ \E i \in DictEntries :
              /\ \A k \in DictEntries : RLeq(args.data[k].iops, args.data[i].iops)
              /\ result.out.max_iops.v = args.data[i].iops
              /\ result.out.iops_latency.v = RDiv(args.data[i].latency, Rat(1000000))

\* C15 witness: the largest bandwidth at an entry of 5 ms, the largest iops at
\* an entry of 8 ms, and an entry that is no dictionary.
C15_Witness ==
    /\ args.kind = "maxima" /\ result.fn = "maxima"
    /\ Len(args.data) = 3 /\ Cardinality(DictEntries) = 2
    /\ result.out.max_bandwidth.v = Rat(2000000) /\ result.out.bandwidth_latency.v = Rat(5)
    /\ result.out.max_iops.v = <<401, 2>> /\ result.out.iops_latency.v = Rat(8)

\* C16: for a canonical run with no leaves every summary field (maximum
\* bandwidth and its latency, maximum iops and its latency, maximum cpu,
\* maximum memory) is zero.
C16_EmptyRunGivesZeros ==
    /\ (args.kind = "maxima" /\ result.fn = "maxima" /\ DictEntries = {}) =>
          /\ result.out.max_bandwidth.v = Rat(0) /\ result.out.bandwidth_latency.v = Rat(0)
          /\ result.out.max_iops.v = Rat(0) /\ result.out.iops_latency.v = Rat(0)
    /\ (args.kind = "usage" /\ result.fn = "usage" /\ DictEntries = {}) =>
          /\ result.out.max_cpu.v = Rat(0) /\ result.out.max_memory.v = Rat(0)

\* C16 witness: the maxima of an empty map were computed.
C16_Witness ==
    /\ args.kind = "maxima" /\ result.fn = "maxima" /\ args.data = <<>>
    /\ result.out.max_bandwidth = StrInt(0) /\ result.out.iops_latency = StrInt(0)

\* C17: the reported throughput is chosen by blocksize alone: for a blocksize
\* of 65536 bytes or more, the maximum bandwidth in MB/s (bytes / 1,000,000,
\* shown without decimals) with latency_at_max_bandwidth (shown with one
\* decimal); below 65536, the maximum iops with latency_at_max_iops.
C17_MetricChosenByBlocksize ==
    (args.kind = "intermediate" /\ result.fn = "throughput") =>
        IF args.data.blocksize >= 65536
        THEN /\ result.out.type = "MB/s"
             /\ Near(result.out.throughput,
                     RDiv(args.data.maximum_bandwidth, Rat(1000000)), <<1, 2>>)
             /\ Near(result.out.latency, args.data.latency_at_max_bandwidth, <<1, 20>>)
        ELSE /\ result.out.type = "IOps"
             /\ Near(result.out.throughput, args.data.maximum_iops, <<1, 2>>)
             /\ Near(result.out.latency, args.data.latency_at_max_iops, <<1, 20>>)

\* C17 witness: the boundary blocksize 65536 reports 2 MB/s at 8.0 ms.
C17_Witness ==
    /\ args.kind = "intermediate" /\ result.fn = "throughput"
    /\ args.data.blocksize = 65536
    /\ result.out.type = "MB/s" /\ result.out.throughput = Rat(2)
    /\ result.out.latency = Rat(8)

\* C18: the reported maximum cpu usage is the largest cpu over the iodepth
\* entries, and the reported maximum memory usage is zero for every input,
\* also when entries carry non-zero memory values.
C18_MaxCpuAndZeroMemory ==
    (args.kind = "usage" /\ result.fn = "usage") =>
        /\ result.out.max_memory.v = Rat(0)
        /\ DictEntries # {} =>
              \E i \in DictEntries :
                  /\ \A k \in DictEntries : RLeq(args.data[k].cpu, args.data[i].cpu)
                  /\ result.out.max_cpu.v = args.data[i].cpu

\* C18 witness: three entries of memory 1024 or 2048, the largest cpu 45.8 in
\* the middle.
C18_Witness ==
    /\ args.kind = "usage" /\ result.fn = "usage"
    /\ Cardinality(DictEntries) = 3
    /\ args.data[1].cpu = <<51, 2>> /\ args.data[2].cpu = <<229, 5>>
    /\ args.data[3].cpu = <<51, 2>> /\ args.data[2].memory = Rat(2048)
    /\ result.out.max_cpu.v = <<229, 5>> /\ result.out.max_memory.v = Rat(0)

\* C19: result files under the same id- directory segment get the same
\* test-run identity whatever directories lie below it, files under different
\* id- segments get different identities, and a file with no id- segment above
\* it gets the name of its immediate parent directory.
C19_IdentityFromRunIdSegment ==
    (args.kind = "paths" /\ result.fn = "ids") =>
        /\ (RunIdsOf(args.p) # {} /\ RunIdsOf(args.p) = RunIdsOf(args.q)) =>
               result.out[1] = result.out[2]
        /\ (RunIdsOf(args.p) # {} /\ RunIdsOf(args.q) # {}
                /\ RunIdsOf(args.p) # RunIdsOf(args.q)) =>
               result.out[1] # result.out[2]
        /\ RunIdsOf(args.p) = {} => result.out[1] = args.p[Len(args.p)]
        /\ RunIdsOf(args.q) = {} => result.out[2] = args.q[Len(args.q)]

\* C19 witness: two files under id-a, one directly below it and one two
\* directories further down.
C19_Witness ==
    /\ args.kind = "paths" /\ result.fn = "ids"
    /\ args.p = <<"x", "id-a">> /\ args.q = <<"id-a", "y", "x">>
    /\ result.out = <<"id-a", "id-a">>

\* C20: file discovery returns exactly the files whose name is the file-name
\* root, a dot, and one or more digits; a file with a non-numeric suffix, a
\* different root or extra text between the root and the digits is never
\* returned.
C20_DiscoveryIsRootDotDigits ==
    (args.kind = "name" /\ result.fn = "find") =>
        (result.out <=>
            (/\ Len(args.name) >= 3
             /\ args.name[1] = "root" /\ args.name[2] = "."
             /\ \A k \in 3..Len(args.name) : args.name[k] = "d"))

-----------------------------------------------------------------------------
(* Claims on the combination of equal shards and of the two sides of a file *)

\* a call of the two combinators on two entries of the same weight w >= 1, the
\* same mean and the same standard deviation, totalWeight 2w and combinedMean
\* the common mean
EqualShardsCall ==
    /\ args.kind = "num" /\ result.fn = "std"
    /\ Len(args.latencies) = 2
    /\ args.latencies[1] = args.latencies[2]
    /\ args.std_deviations[1] = args.std_deviations[2]
    /\ args.operations[1] = args.operations[2] /\ args.operations[1] >= 1
    /\ args.total_ios = TotalWeight
    /\ args.combined_latency = args.latencies[1]

\* C21: combining two shards that have the same weight, the same mean and the
\* same standard deviation s returns s.
C21_EqualShardsReturnTheirStd ==
    EqualShardsCall =>
        /\ result.std.err = "none"
        /\ result.std.val.sq = args.std_deviations[1].sq

\* C21, as the pooling formula has it: two shards of the same weight w, the
\* same mean and the same standard deviation s combine to
\* s * sqrt((2w - 2) / (2w - 1)), which is s only when s = 0 and is below s
\* otherwise.
C21_EqualShardsReturnShrunkStd ==
    EqualShardsCall =>
        /\ result.std.err = "none"
        /\ result.std.val.sq
              = RMul(args.std_deviations[1].sq,
                     Norm(2 * args.operations[1] - 2, 2 * args.operations[1] - 1))
        /\ RLeq(result.std.val.sq, args.std_deviations[1].sq)
        /\ (result.std.val.sq = args.std_deviations[1].sq
                <=> args.std_deviations[1].sq = Rat(0))

\* C21 witness: two shards of weight 2, standard deviation 2 (variance 4) and
\* one mean combine to the variance 8/3.
C21_Witness ==
    /\ EqualShardsCall
    /\ args.operations[1] = 2 /\ args.std_deviations[1].sq = Rat(4)
    /\ result.std.err = "none" /\ result.std.val.sq = <<8, 3>>

\* the distance of two rationals
RDist(x, y) == IF RLess(x, y) THEN RSub(y, x) ELSE RSub(x, y)

\* m lies between the means m1 and m2 of two sides of w1 and w2 samples:
\* strictly when the means differ, and nearer to the mean of the larger side
MeanLiesBetween(m, m1, w1, m2, w2) ==
    /\ (RLeq(m1, m) /\ RLeq(m, m2)) \/ (RLeq(m2, m) /\ RLeq(m, m1))
    /\ m1 # m2 => (m # m1 /\ m # m2)
    /\ (m1 # m2 /\ w1 > w2) => RLess(RDist(m, m1), RDist(m, m2))
    /\ (m1 # m2 /\ w2 > w1) => RLess(RDist(m, m2), RDist(m, m1))

\* the read and write sub-sections of the file under the reader, in file order
InterestSections == SelectSeq(args.file.sections, OfInterest)

\* C22: whenever two sides with positive sample counts are combined (by
\* sum_mean_values itself, as the read and write sub-sections of one file, or
\* as an existing leaf and a new shard), the combined mean lies between the two
\* input means, strictly between them when they differ, and nearer to the mean
\* of the side with the larger sample count.
C22_CombinedMeanLiesBetween ==
    /\ (/\ args.kind = "num" /\ result.fn \in {"mean", "std"}
        /\ Len(args.latencies) = 2
        /\ args.operations[1] > 0 /\ args.operations[2] > 0
        /\ args.total_ios = TotalWeight) =>
           /\ result.mean.err = "none"
           /\ MeanLiesBetween(result.mean.val, args.latencies[1], args.operations[1],
                              args.latencies[2], args.operations[2])
    /\ (/\ args.kind = "pair" /\ result.fn = "sum_io_details"
        /\ args.operations[1] > 0 /\ args.operations[2] > 0
        /\ result.out.err = "none") =>
           MeanLiesBetween(result.out.val.latency.v, args.latencies[1], args.operations[1],
                           args.latencies[2], args.operations[2])
    /\ (/\ args.kind = "file" /\ result.fn = "FIO" /\ result.out.err = "none"
        /\ Len(InterestSections) = 2
        /\ InterestSections[1].total_ios > 0 /\ InterestSections[2].total_ios > 0) =>
           MeanLiesBetween(result.out.val.io_details.latency.v,
                           InterestSections[1].mean, InterestSections[1].total_ios,
                           InterestSections[2].mean, InterestSections[2].total_ios)

\* C22 witness: a leaf of 1 sample and mean 3 recombined with a shard of 2
\* samples and mean 1 has the mean 5/3, nearer to 1.
C22_Witness ==
    /\ args.kind = "pair" /\ result.fn = "sum_io_details"
    /\ args.latencies = <<Rat(3), Rat(1)>> /\ args.operations = <<1, 2>>
    /\ result.out.err = "none" /\ result.out.val.latency.v = <<5, 3>>

\* the file under the reader has a read and a write sub-section, i counts no
\* ios and the other one counts some
ZeroCountSide(i) ==
    /\ Len(InterestSections) = 2 /\ i \in {1, 2}
    /\ InterestSections[i].total_ios = 0
    /\ InterestSections[3 - i].total_ios > 0

\* C23: when one of the read/write sub-sections of a file has total_ios = 0,
\* the file's combined mean and combined standard deviation are the mean and
\* the standard deviation of the other sub-section, whatever mean and stddev
\* the zero-count sub-section carries.
C23_ZeroCountSideIsIgnored ==
    \A i \in {1, 2} :
        (/\ args.kind = "file" /\ result.fn = "FIO" /\ FileReadable
         /\ args.file.opts.has_iodepth
         /\ get_iodepth(args.file.opts.iodepth, args.file.path).err = "none"
         /\ ZeroCountSide(i)) =>
            /\ result.out.err = "none"
            /\ result.out.val.io_details.latency.v = InterestSections[3 - i].mean
            /\ result.out.val.io_details.std_deviation.v = InterestSections[3 - i].stddev

-----------------------------------------------------------------------------
(* Claims on the passes of the run aggregator *)

\* C24: after process() returns, the run's file list contains no
\* precondition-marked file, for every number and placement of
\* precondition-marked files in the discovered list.
C24_NoPreconditionFileLeft ==
    (PassOver /\ raised = "none") =>
        \A i \in 1..Len(files) : ~file_is_precondition(FileOf(disc[files[i]]))

\* the keys of a complete leaf: global options, io statistics, resource fields
LeafFields ==
    {"number_of_jobs", "runtime_seconds", "blocksize", "percentage_reads",
     "percentage_writes", "io_bytes", "bandwidth_bytes", "iops", "latency",
     "std_deviation", "total_ios", "source", "cpu", "memory"}

\* C25: wherever the map can be read (between the conversions of a pass, after
\* a pass, after a conversion that raised), each leaf is the complete result of
\* the folds finished so far: it has every field, its total_ios is the sum over
\* the shards folded onto its key, and its global options and resource fields
\* are those of the last of them; a key nothing was folded onto has no leaf.
C25_LeafIsNeverPartial ==
    \A key \in DOMAIN processed_data :
        /\ DOMAIN processed_data[key] = LeafFields
        /\ FoldsOnto(key) # {}
        /\ processed_data[key].total_ios = StrInt(FoldedTotal(FoldsOnto(key)))
        /\ \E f \in {FileOf(disc[foldlog[LastFoldOnto(key)]])} :
              /\ processed_data[key].cpu.v = RAdd(f.sys_cpu, f.usr_cpu)
              /\ processed_data[key].runtime_seconds = StrInt(f.opts.runtime)
              /\ processed_data[key].blocksize = get_blocksize(f.opts.bs)

\* C25 witness: shard A was folded, then the conversion of a second shard on
\* the same key raised in the resource reader after its io statistics were
\* recombined: the leaf is still shard A's, whole.
C25_Witness ==
    /\ disc = <<"ShardA", "NoCpuFile">>
    /\ foldlog = <<1>> /\ raised = "KeyError" /\ pc = "idle"
    /\ KeyAt(1) = KeyAt(2)
    /\ DOMAIN processed_data[KeyAt(1)] = LeafFields
    /\ processed_data[KeyAt(1)].total_ios = StrInt(2)
    /\ processed_data[KeyAt(1)].cpu.v = <<5, 2>>

\* the io details the reader gives each shard of the catalogue
ShardDetails ==
    [name \in {"ShardA", "ShardB", "ShardC", "ShardD", "NoCpuFile"} |->
        get_io_details(FileOf(name).sections).val]

\* what a shard of w ios adds to an n-way combination: w * mean to the sum of
\* the means, (w - 1) * stddev^2 + w * mean^2 to the sum of the squares
MomentsOf(d) ==
    [mean |-> RMul(d.total_ios.v, d.latency.v),
     squares |-> RAdd(RMul(RSub(d.total_ios.v, Rat(1)), d.std_deviation.v.sq),
                      RMul(d.total_ios.v, RMul(d.latency.v, d.latency.v)))]
ShardMoments == [name \in DOMAIN ShardDetails |-> MomentsOf(ShardDetails[name])]

\* the sum of one of the two over the shards of a set of folds
RECURSIVE FoldedWeighted(_, _)
FoldedWeighted(S, what) ==
    IF S = {} THEN Rat(0)
    ELSE LET i == CHOOSE i \in S : TRUE
         IN  RAdd(ShardMoments[disc[foldlog[i]]][what], FoldedWeighted(S \ {i}, what))

\* the single n-way combination of the shards of a set of folds, w their
\* total_ios: the mean, and the variance for that mean
NWayMean(S, w) == RDiv(FoldedWeighted(S, "mean"), Rat(w))
NWayVariance(S, w, mean) ==
    RDiv(RSub(FoldedWeighted(S, "squares"), RMul(Rat(w), RMul(mean, mean))), Rat(w - 1))

LeafIsNWay(leaf, S, w) ==
    /\ leaf.total_ios = StrInt(w)
    /\ leaf.latency.v = NWayMean(S, w)
    /\ leaf.std_deviation.v.sq = NWayVariance(S, w, leaf.latency.v)

\* C26: a leaf built by folding shards one at a time (the running leaf
\* recombined with each new shard) has the total_ios, the mean and the
\* variance of the single n-way combination of all the shards folded onto its
\* key, in every order of folding.
C26_PairwiseFoldIsNWay ==
    \A key \in DOMAIN processed_data :
        LeafIsNWay(processed_data[key], FoldsOnto(key), FoldedTotal(FoldsOnto(key)))

\* C26 witness: shards B, A and B folded in this order onto one key: 12 ios
\* of mean 3/2.
C26_Witness ==
    /\ disc = <<"ShardB", "ShardA", "ShardB">>
    /\ foldlog = <<1, 2, 3>>
    /\ processed_data[KeyAt(1)].total_ios = StrInt(12)
    /\ processed_data[KeyAt(1)].latency.v = <<3, 2>>
    /\ RLess(Rat(0), processed_data[KeyAt(1)].std_deviation.v.sq)

\* C27: once a get() or a process() has completed, a further get() returns
\* the canonical map as it is and folds nothing: every step of a processed run
\* that is not part of a process() call leaves the map, the fold log and the
\* file list unchanged, starts no loop, and returns the map.
C27_GetProcessesOnce ==
    [][(has_been_processed /\ pc # "process" /\ process_calls' = process_calls) =>
          /\ pc' = "idle"
          /\ processed_data' = processed_data
          /\ foldlog' = foldlog
          /\ files' = files
          /\ result' = processed_data]_vars

\* C27 witness: the run's only pass was a process() call that folded shards,
\* and a get() after it has returned the map.
C27_Witness ==
    /\ has_been_processed /\ pc = "idle"
    /\ passes = 1 /\ process_calls = 1
    /\ foldlog # <<>>
    /\ result = processed_data /\ result # NoData

\* C28: across any sequence of get() calls on one run, also when an earlier
\* call raised partway through the file list, each file is folded into the
\* canonical map at most once.
C28_GetFoldsEachFileOnce ==
    process_calls = 0 => \A id \in 1..Len(disc) : FoldCount(id) <= 1

\* the io statistics of a leaf
IoOf(leaf) ==
    IoDetails(leaf.io_bytes, leaf.bandwidth_bytes, leaf.iops, leaf.latency,
              leaf.std_deviation, leaf.total_ios)

\* C29: folding a shard with key (operation, blocksize, iodepth) changes only
\* the leaf at that key: every leaf at a different operation, blocksize or
\* iodepth stays in the map with all its fields unchanged, and a leaf that did
\* not exist holds that single shard's statistics, not recombined.
C29_FoldChangesOnlyItsLeaf ==
    [][foldlog' # foldlog =>
          \E id \in {foldlog'[Len(foldlog')]} :
              /\ DOMAIN processed_data' = DOMAIN processed_data \cup {KeyAt(id)}
              /\ \A k \in DOMAIN processed_data \ {KeyAt(id)} :
                    processed_data'[k] = processed_data[k]
              /\ KeyAt(id) \notin DOMAIN processed_data =>
                    IoOf(processed_data'[KeyAt(id)]) = ShardDetails[disc[id]]]_vars

\* C29 witness: leaves at three keys, of another iodepth (shard C) and of
\* another operation and blocksize (shard D) than shard A's, each holding its
\* own shard's total_ios after the three folds.
C29_Witness ==
    /\ disc = <<"ShardA", "ShardC", "ShardD">>
    /\ foldlog = <<1, 2, 3>>
    /\ Cardinality(DOMAIN processed_data) = 3
    /\ KeyAt(1)[3] # KeyAt(2)[3]
    /\ KeyAt(1)[1] # KeyAt(3)[1] /\ KeyAt(1)[2] # KeyAt(3)[2]
    /\ processed_data[KeyAt(1)].total_ios = StrInt(2)
    /\ processed_data[KeyAt(2)].total_ios = StrInt(3)
    /\ processed_data[KeyAt(3)].total_ios = StrInt(4)

-----------------------------------------------------------------------------
(* Claim on the quantity under the square root *)

\* C30: sum_standard_deviation_values never takes the square root of a
\* negative quantity: for non-negative standard deviations, non-negative
\* integer weights (0 among them), totalWeight the sum of the weights and at
\* least 2, and combinedMean the weighted mean, the quantity under the square
\* root is >= 0 and no math domain error is raised.
C30_RadicandIsNeverNegative ==
    (/\ args.kind = "num" /\ result.fn = "std"
     /\ args.total_ios = TotalWeight /\ args.total_ios >= 2
     /\ result.mean.err = "none" /\ args.combined_latency = result.mean.val) =>
        /\ RLeq(Rat(0), PooledVariance)
        /\ result.std.err = "none"

=============================================================================
